---- MODULE Spec2Model ----
(***************************************************************************)
(* meet2action: the transcript parser/cleaner (components/                 *)
(* transcript_parser.py) and the action item extractor (components/        *)
(* gemini_processor.py), with the Process step of app.py that composes     *)
(* them; the Drive search and content fetch (utils/google_auth.py,         *)
(* components/drive_connector.py) and the task store (utils/               *)
(* supabase_client.py) with the steps of app.py that use them.             *)
(*                                                                         *)
(* A text is a sequence of symbols.  A transcript is written over single   *)
(* characters; a model response is written over chunks of characters (a    *)
(* fence, a word, a punctuation mark), so that the text the sequence       *)
(* stands for is the concatenation of its symbols.                         *)
(***************************************************************************)
EXTENDS Integers, Sequences, FiniteSets, TLC

VARIABLES
    transcript_content, \* st.session_state.transcript_content
    transcript_text,    \* extract_action_items: its argument
    pc,                 \* extract_action_items: position in the function
    locals,             \* extract_action_items: names bound so far
    inits,              \* number of initialize_gemini() calls
    calls,              \* number of model.generate_content() calls
    response,           \* the object generate_content returned
    response_text,      \* extract_action_items: local response_text
    action_items,       \* extract_action_items: local action_items (json.loads)
    exc,                \* the exception raised inside the try block
    raised,             \* an exception left extract_action_items
    result,             \* the list extract_action_items returned
    diagnostics,        \* the st.error / st.code / st.warning / st.success calls, in order
    raw_text,           \* parse_transcript / clean_transcript: the argument
    cleaned,            \* clean_transcript: [done, text]
    lines,              \* parse_transcript: raw_text.split('\n')
    li,                 \* parse_transcript: lines consumed by the for loop
    parsed,             \* parse_transcript: local parsed
    current_speaker,    \* parse_transcript: local current_speaker
    current_text,       \* parse_transcript: local current_text
    ppc,                \* parse_transcript: position in the function
    speakers,           \* extract_speakers: the list returned
    session_action_items, \* st.session_state.action_items
    google_creds,       \* st.session_state.google_creds
    transcripts,        \* st.session_state.transcripts
    selected_transcript, \* st.session_state.selected_transcript
    dpc,                \* Search Transcripts / Load Transcript: position
    search,             \* list_drive_files: meeting_code, start_date, end_date
    all_files,          \* list_drive_files: local all_files
    seen_file_ids,      \* list_drive_files: local seen_file_ids
    requests,           \* the Drive requests made, with their outcome
    files,              \* fetch_transcripts: what list_drive_files returned
    drive_exc,          \* the exception that left fetch_transcripts or
                        \* get_transcript_content
    drive_msgs,         \* the st.* calls of the Drive steps, in order
    user,               \* the user get_user_session() returns
    store,              \* the rows of the Supabase table "tasks"
    saved,              \* the calls of save_tasks that succeeded, in order
    store_step,         \* the last Save / Load Saved Tasks step and its outcome
    store_msgs          \* the st.* calls of that step, in order

extractVars == <<transcript_content, transcript_text, pc, locals, inits, calls,
                 response, response_text, action_items, exc, raised, result,
                 diagnostics>>
parserVars == <<raw_text, cleaned, lines, li, parsed, current_speaker,
                current_text, ppc, speakers>>
driveVars == <<google_creds, transcripts, selected_transcript, dpc, search,
               all_files, seen_file_ids, requests, files, drive_exc, drive_msgs>>
storeVars == <<user, store, saved, store_step, store_msgs>>
appVars == <<session_action_items, driveVars, storeVars>>
vars == <<extractVars, parserVars, appVars>>

-----------------------------------------------------------------------------
(* Bounds of the model.                                                    *)

MaxItems == 2        \* elements of a generated JSON array
MaxShort == 2        \* length of the exhaustively enumerated short responses
MaxChars == 4        \* length of the exhaustively enumerated transcripts
MaxLines == 3        \* lines of the transcripts built from line shapes

-----------------------------------------------------------------------------
(* Text primitives (Python str).                                           *)

Q == "\""
\* the three backquotes of a Markdown fence, as one symbol (a TLA+ string
\* cannot hold a backquote)
FENCE == "<fence>"
NL == "\n"
FF == "\f"

\* str.isspace() on the symbols used here; also the regex class \s
IsSpace(c) == c \in {" ", NL, FF}

\* the regex class \d, on ASCII
IsDigit(c) == c \in {"0", "1", "2", "3", "4", "5", "6", "7", "8", "9"}

\* the regex class [A-Z]
IsUpper(c) ==
    c \in {"A", "B", "C", "D", "E", "F", "G", "H", "I", "J", "K", "L", "M",
           "N", "O", "P", "Q", "R", "S", "T", "U", "V", "W", "X", "Y", "Z"}

\* the regex class [a-z]
IsLower(c) ==
    c \in {"a", "b", "c", "d", "e", "f", "g", "h", "i", "j", "k", "l", "m",
           "n", "o", "p", "q", "r", "s", "t", "u", "v", "w", "x", "y", "z"}

RECURSIVE LStrip(_)
LStrip(s) ==
    IF s # <<>> /\ IsSpace(Head(s)) THEN LStrip(Tail(s)) ELSE s

RECURSIVE RStrip(_)
RStrip(s) ==
    IF s # <<>> /\ IsSpace(s[Len(s)]) THEN RStrip(SubSeq(s, 1, Len(s) - 1)) ELSE s

\* str.strip()
Strip(s) == RStrip(LStrip(s))

\* s[i:] starts with sep
StartsAt(s, sep, i) ==
    /\ i + Len(sep) - 1 <= Len(s)
    /\ SubSeq(s, i, i + Len(sep) - 1) = sep

\* str.find, 1-based; 0 when absent
RECURSIVE Find(_, _, _)
Find(s, sep, i) ==
    IF i + Len(sep) - 1 > Len(s) THEN 0
    ELSE IF StartsAt(s, sep, i) THEN i
    ELSE Find(s, sep, i + 1)

\* sep in s
Contains(s, sep) == Find(s, sep, 1) # 0

\* str.split(sep), sep non-empty
RECURSIVE Split(_, _)
Split(s, sep) ==
    LET j == Find(s, sep, 1)
    IN  IF j = 0 THEN <<s>>
        ELSE <<SubSeq(s, 1, j - 1)>> \o Split(SubSeq(s, j + Len(sep), Len(s)), sep)

\* sep.join(parts)
RECURSIVE Join(_, _)
Join(parts, sep) ==
    IF parts = <<>> THEN <<>>
    ELSE IF Len(parts) = 1 THEN parts[1]
    ELSE parts[1] \o sep \o Join(Tail(parts), sep)

-----------------------------------------------------------------------------
(* json.loads on a text of symbols.  A value is a tagged record; a dict is *)
(* a function from keys to values.                                         *)

JNull == [t |-> "null"]
JTrue == [t |-> "true"]
JNum(n) == [t |-> "num", n |-> n]
JStr(s) == [t |-> "str", s |-> s]
JArr(items) == [t |-> "arr", items |-> items]
JObj(d) == [t |-> "obj", d |-> d]

JFail == [ok |-> FALSE, val |-> JNull, end |-> 0]
JOk(v, e) == [ok |-> TRUE, val |-> v, end |-> e]

\* json.decoder.WHITESPACE
IsJsonWs(c) == c \in {" ", NL}

RECURSIVE SkipWs(_, _)
SkipWs(s, i) ==
    IF i <= Len(s) /\ IsJsonWs(s[i]) THEN SkipWs(s, i + 1) ELSE i

\* json.decoder.scanstring from the symbol after the opening quote; strict
\* mode rejects a control character inside the string
ScanString(s, i) ==
    LET j == Find(s, <<Q>>, i)
    IN  IF j = 0 THEN JFail
        ELSE IF \E k \in i..(j - 1) : s[k] \in {NL, FF} THEN JFail
        ELSE JOk(SubSeq(s, i, j - 1), j + 1)

RECURSIVE DigitsEnd(_, _)
DigitsEnd(s, i) ==
    IF i <= Len(s) /\ s[i] = "1" THEN DigitsEnd(s, i + 1) ELSE i

RECURSIVE Ones(_)
Ones(k) == IF k = 0 THEN 0 ELSE 10 * Ones(k - 1) + 1

RECURSIVE ScanOnce(_, _)
RECURSIVE ArrayItems(_, _, _)
RECURSIVE ObjectMembers(_, _, _)

\* json.decoder.JSONArray after the first value position is known
ArrayItems(s, i, acc) ==
    LET v == ScanOnce(s, i)
    IN  IF ~v.ok THEN JFail
        ELSE LET j == SkipWs(s, v.end)
             IN  IF j > Len(s) THEN JFail
                 ELSE IF s[j] = "]" THEN JOk(JArr(Append(acc, v.val)), j + 1)
                 ELSE IF s[j] = "," THEN ArrayItems(s, SkipWs(s, j + 1), Append(acc, v.val))
                 ELSE JFail

\* json.decoder.JSONObject from the opening quote of a key; a repeated key
\* keeps its last value
ObjectMembers(s, i, acc) ==
    IF i > Len(s) \/ s[i] # Q THEN JFail
    ELSE LET k == ScanString(s, i + 1)
         IN  IF ~k.ok THEN JFail
             ELSE LET c == SkipWs(s, k.end)
                  IN  IF c > Len(s) \/ s[c] # ":" THEN JFail
                      ELSE LET v == ScanOnce(s, SkipWs(s, c + 1))
                           IN  IF ~v.ok THEN JFail
                               ELSE LET d == (k.val :> v.val) @@ acc
                                        j == SkipWs(s, v.end)
                                    IN  IF j > Len(s) THEN JFail
                                        ELSE IF s[j] = "}" THEN JOk(JObj(d), j + 1)
                                        ELSE IF s[j] = ","
                                             THEN ObjectMembers(s, SkipWs(s, j + 1), d)
                                        ELSE JFail

\* json.scanner.py_make_scanner._scan_once
ScanOnce(s, i) ==
    IF i > Len(s) THEN JFail
    ELSE IF s[i] = Q THEN
        LET r == ScanString(s, i + 1)
        IN  IF r.ok THEN JOk(JStr(r.val), r.end) ELSE JFail
    ELSE IF s[i] = "{" THEN
        LET j == SkipWs(s, i + 1)
        IN  IF j <= Len(s) /\ s[j] = "}" THEN JOk(JObj(<<>>), j + 1)
            ELSE ObjectMembers(s, j, <<>>)
    ELSE IF s[i] = "[" THEN
        LET j == SkipWs(s, i + 1)
        IN  IF j <= Len(s) /\ s[j] = "]" THEN JOk(JArr(<<>>), j + 1)
            ELSE ArrayItems(s, j, <<>>)
    ELSE IF s[i] = "null" THEN JOk(JNull, i + 1)
    ELSE IF s[i] = "true" THEN JOk(JTrue, i + 1)
    ELSE IF s[i] = "1" THEN
        LET e == DigitsEnd(s, i) IN JOk(JNum(Ones(e - i)), e)
    ELSE JFail

\* json.loads: one value, whitespace around it, nothing else
JsonLoads(s) ==
    LET v == ScanOnce(s, SkipWs(s, 1))
    IN  IF v.ok /\ SkipWs(s, v.end) = Len(s) + 1 THEN v ELSE JFail

-----------------------------------------------------------------------------
(* Response texts the generation capability may return.                    *)

Symbols == {"[", "]", "{", "}", ",", ":", Q, " ", NL, FENCE, "json", "task",
            "assignee", "priority", "x", "1", "null", "true"}

RECURSIVE SeqsUpTo(_, _)
SeqsUpTo(S, n) ==
    IF n = 0 THEN {<<>>}
    ELSE LET shorter == SeqsUpTo(S, n - 1)
         IN  shorter \cup {Append(s, c) : s \in {t \in shorter : Len(t) = n - 1}, c \in S}

ShortTexts == SeqsUpTo(Symbols, MaxShort)

StrTexts == {<<Q, Q>>, <<Q, "x", Q>>, <<Q, "x", FENCE, Q>>}
FieldText(k, v) == <<Q, k, Q, ":">> \o v
TaskFields == {<<>>} \cup {FieldText("task", v) : v \in StrTexts}
AssigneeFields == {<<>>, FieldText("assignee", <<Q, "x", Q>>)}
PriorityFields == {<<>>, FieldText("priority", <<Q, "x", " ", "x", Q>>)}
ObjectTexts ==
    {<<"{">> \o Join(SelectSeq(<<a, t, p>>, LAMBDA f : f # <<>>), <<",">>) \o <<"}">> :
        a \in AssigneeFields, t \in TaskFields, p \in PriorityFields}
ScalarTexts == {<<"null">>, <<"1">>, <<Q, "task", Q>>, <<"[", "]">>}
ElementTexts == ObjectTexts \cup ScalarTexts
ArrayTexts ==
    {<<"[">> \o Join(es, <<",">>) \o <<"]">> :
        es \in UNION {[1..n -> ElementTexts] : n \in 0..MaxItems}}
PayloadTexts == ArrayTexts \cup ElementTexts \cup {<<"true">>}

Wrappings(p) ==
    { p,
      <<NL>> \o p \o <<" ", NL>>,
      <<FENCE, "json", NL>> \o p \o <<NL, FENCE>>,
      <<FENCE, NL>> \o p \o <<NL, FENCE>>,
      <<"x", NL, FENCE, "json", NL>> \o p \o <<NL, FENCE, NL, "x">>,
      <<FENCE, "json", NL>> \o p,
      <<FENCE, NL, "x", NL, FENCE, NL, FENCE, "json", NL>> \o p \o <<NL, FENCE>>,
      p \o <<NL, FENCE>> }

ResponseTexts == ShortTexts \cup UNION {Wrappings(p) : p \in PayloadTexts}

\* a response object: response.text is the text, or raises when the response
\* holds no candidate text
TextResponse(t) == [has_text |-> TRUE, text |-> t]
EmptyResponse == [has_text |-> FALSE, text |-> <<>>]
Responses == {EmptyResponse} \cup {TextResponse(t) : t \in ResponseTexts}

-----------------------------------------------------------------------------
(* Optional values (None or a value) of the session state.                 *)

None == [is_none |-> TRUE, v |-> <<>>]
Some(v) == [is_none |-> FALSE, v |-> v]
\* bool(x) for x None or a str
Truthy(o) == ~o.is_none /\ o.v # <<>>

-----------------------------------------------------------------------------
(* components/transcript_parser.py: clean_transcript.                      *)

DigitAt(s, i) == i <= Len(s) /\ IsDigit(s[i])
SpaceAt(s, i) == i <= Len(s) /\ IsSpace(s[i])
CharAt(s, i, c) == i <= Len(s) /\ s[i] = c

\* the regex :\d{2}(:\d{2})?\s matched at j: the index after the match, or 0.
\* The optional group is tried first, then skipped (backtracking).
TimestampTail(s, j) ==
    IF CharAt(s, j, ":") /\ DigitAt(s, j + 1) /\ DigitAt(s, j + 2)
    THEN IF /\ CharAt(s, j + 3, ":") /\ DigitAt(s, j + 4) /\ DigitAt(s, j + 5)
            /\ SpaceAt(s, j + 6)
         THEN j + 7
         ELSE IF SpaceAt(s, j + 3) THEN j + 4 ELSE 0
    ELSE 0

\* the regex \d{1,2}:\d{2}(:\d{2})?\s matched at i: the index after the
\* match, or 0.  \d{1,2} takes two digits first, then one.
TimestampEnd(s, i) ==
    IF ~DigitAt(s, i) THEN 0
    ELSE IF DigitAt(s, i + 1) /\ TimestampTail(s, i + 2) # 0
         THEN TimestampTail(s, i + 2)
         ELSE TimestampTail(s, i + 1)

\* re.sub(r'\d{1,2}:\d{2}(:\d{2})?\s', '', s): leftmost matches, left to
\* right, the scan resuming after each match
RECURSIVE RemoveTimestamps(_, _)
RemoveTimestamps(s, i) ==
    IF i > Len(s) THEN <<>>
    ELSE LET e == TimestampEnd(s, i)
         IN  IF e # 0 THEN RemoveTimestamps(s, e)
             ELSE <<s[i]>> \o RemoveTimestamps(s, i + 1)

\* re.sub(r'\s+', ' ', s)
RECURSIVE CollapseWhitespace(_)
CollapseWhitespace(s) ==
    IF s = <<>> THEN <<>>
    ELSE IF IsSpace(Head(s)) THEN <<" ">> \o CollapseWhitespace(LStrip(s))
    ELSE <<Head(s)>> \o CollapseWhitespace(Tail(s))

\* s.replace('\f', ' ')
ReplaceFormFeed(s) == [i \in 1..Len(s) |-> IF s[i] = FF THEN " " ELSE s[i]]

clean_transcript(raw) ==
    IF raw = <<>> THEN <<>>
    ELSE Strip(ReplaceFormFeed(CollapseWhitespace(RemoveTimestamps(raw, 1))))

-----------------------------------------------------------------------------
(* components/gemini_processor.py: extract_action_items, called from the   *)
(* Process step of app.py.                                                 *)

\* transcripts the Load Transcript step may have stored
LoadedTranscripts ==
    { <<>>,
      <<" ", NL>>,
      <<"1", ":", "1", "1", " ">>,
      <<"A", "b", ":", " ", "b">> }

LABEL == <<FENCE, "json">>

\* lines 56-62: response.text.strip(), then the fence tests
UnwrapResponseText(text) ==
    LET stripped == Strip(text)
    IN  IF Contains(stripped, LABEL)
        THEN Strip(Split(Split(stripped, LABEL)[2], <<FENCE>>)[1])
        ELSE IF Contains(stripped, <<FENCE>>)
        THEN Strip(Split(Split(stripped, <<FENCE>>)[2], <<FENCE>>)[1])
        ELSE stripped

\* isinstance(item, dict)
IsDict(v) == v.t = "obj"

\* whether "for item in v" can start: a list, a dict and a str are iterable,
\* None, a bool and an int raise TypeError
IsIterable(v) == v.t \in {"arr", "obj", "str"}

\* the elements "for item in v" visits
RECURSIVE KeysInOrder(_)
KeysInOrder(K) ==
    IF K = {} THEN <<>>
    ELSE LET k == CHOOSE x \in K : TRUE
         IN  <<JStr(k)>> \o KeysInOrder(K \ {k})

Iterate(v) ==
    IF v.t = "arr" THEN v.items
    ELSE IF v.t = "obj" THEN KeysInOrder(DOMAIN v.d)
    ELSE [i \in 1..Len(v.s) |-> JStr(<<v.s[i]>>)]

\* dict.get(key, default)
Get(d, key, default) == IF key \in DOMAIN d THEN d[key] ELSE default

\* ValidatedItem gating on a non-empty task (if item.get("task")) instead of
\* on the presence of the key
ValidatedItemTruthyTask(item) ==
    IF /\ IsDict(item) /\ <<"task">> \in DOMAIN item.d
       /\ item.d[<<"task">>] # JStr(<<>>)
    THEN << [ assignee |-> Get(item.d, <<"assignee">>, JStr(<<"Unassigned">>)),
              task     |-> Get(item.d, <<"task">>, JStr(<<>>)),
              priority |-> Get(item.d, <<"priority">>, JStr(<<"Medium">>)) ] >>
    ELSE <<>>

\* lines 70-75: the body of the validation loop for one item
ValidatedItem(item) ==
    IF IsDict(item) /\ <<"task">> \in DOMAIN item.d
    THEN << [ assignee |-> Get(item.d, <<"assignee">>, JStr(<<"Unassigned">>)),
              task     |-> Get(item.d, <<"task">>, JStr(<<>>)),
              priority |-> Get(item.d, <<"priority">>, JStr(<<"Medium">>)) ] >>
    ELSE <<>>

\* lines 68-75: the validation loop
RECURSIVE ValidateItems(_)
ValidateItems(items) ==
    IF items = <<>> THEN <<>>
    ELSE ValidatedItem(Head(items)) \o ValidateItems(Tail(items))

\* CaughtByExcept for a handler narrowed to "except ValueError"
CaughtByExceptValueError(e) == e \in {"ValueError"}

\* the classes "except Exception" catches, among those the try block raises
CaughtByExcept(e) == e \in {"ValueError", "APIError", "TypeError"}

StError(m) == [fn |-> "st.error", msg |-> m, body |-> <<>>]
StCode(t) == [fn |-> "st.code", msg |-> "", body |-> t]
StWarning(m) == [fn |-> "st.warning", msg |-> m, body |-> <<>>]
StSuccess(m) == [fn |-> "st.success", msg |-> m, body |-> <<>>]

\* app.py 169-175: Load Transcript stores the fetched content
LoadTranscript ==
    /\ pc = "idle"
    /\ transcript_content = None
    /\ \E content \in LoadedTranscripts : transcript_content' = Some(content)
    /\ UNCHANGED <<transcript_text, pc, locals, inits, calls, response,
                   response_text, action_items, exc, raised, result, diagnostics>>
    /\ UNCHANGED <<parserVars, appVars>>

\* ProcessWithGemini without the early return of lines 26-27
ProcessWithGeminiNoGuard ==
    /\ pc = "idle"
    /\ Truthy(transcript_content)
    /\ transcript_text' = clean_transcript(transcript_content.v)
    /\ pc' = "initialize"
    /\ UNCHANGED <<transcript_content, locals, inits, calls, response,
                   response_text, action_items, exc, raised, result, diagnostics>>
    /\ UNCHANGED <<parserVars, appVars>>

\* app.py 181-187 and gemini_processor.py 26-27: Process cleans the stored
\* transcript and calls extract_action_items, which returns at once on an
\* empty text
ProcessWithGemini ==
    /\ pc = "idle"
    /\ Truthy(transcript_content)
    /\ transcript_text' = clean_transcript(transcript_content.v)
    /\ IF transcript_text' = <<>>
       THEN pc' = "done" /\ result' = <<>>
       ELSE pc' = "initialize" /\ result' = result
    /\ UNCHANGED <<transcript_content, locals, inits, calls, response,
                   response_text, action_items, exc, raised, diagnostics>>
    /\ UNCHANGED <<parserVars, appVars>>

\* line 30 (and 9-13): initialize_gemini() returns the model or raises (the
\* API key is not set: env_loader.py 13)
InitializeGemini ==
    /\ pc = "initialize"
    /\ inits' = inits + 1
    /\ \/ pc' = "generate" /\ locals' = locals \cup {"model"} /\ exc' = exc
       \/ pc' = "except" /\ locals' = locals /\ exc' = "ValueError"
    /\ UNCHANGED <<transcript_content, transcript_text, calls, response,
                   response_text, action_items, raised, result, diagnostics>>
    /\ UNCHANGED <<parserVars, appVars>>

\* GenerateContent re-issuing the call once after a failure
GenerateContentRetry ==
    /\ pc = "generate"
    /\ calls' = calls + 1
    /\ \/ /\ \E r \in Responses : response' = r
          /\ pc' = "unwrap" /\ locals' = locals \cup {"response"} /\ exc' = exc
       \/ /\ pc' = (IF calls = 0 THEN "generate" ELSE "except")
          /\ locals' = locals /\ exc' = "APIError" /\ response' = response
    /\ UNCHANGED <<transcript_content, transcript_text, inits, response_text,
                   action_items, raised, result, diagnostics>>
    /\ UNCHANGED <<parserVars, appVars>>

\* line 53: the one blocking call; it returns a response or raises
GenerateContent ==
    /\ pc = "generate"
    /\ calls' = calls + 1
    /\ \/ /\ \E r \in Responses : response' = r
          /\ pc' = "unwrap" /\ locals' = locals \cup {"response"} /\ exc' = exc
       \/ pc' = "except" /\ locals' = locals /\ exc' = "APIError"
             /\ response' = response
    /\ UNCHANGED <<transcript_content, transcript_text, inits, response_text,
                   action_items, raised, result, diagnostics>>
    /\ UNCHANGED <<parserVars, appVars>>

\* lines 56-62: response.text raises on a response without text
UnwrapResponse ==
    /\ pc = "unwrap"
    /\ IF response.has_text
       THEN /\ response_text' = UnwrapResponseText(response.text)
            /\ locals' = locals \cup {"response_text"}
            /\ pc' = "loads" /\ exc' = exc
       ELSE /\ pc' = "except" /\ exc' = "ValueError"
            /\ UNCHANGED <<response_text, locals>>
    /\ UNCHANGED <<transcript_content, transcript_text, inits, calls, response,
                   action_items, raised, result, diagnostics>>
    /\ UNCHANGED <<parserVars, appVars>>

\* line 65: json.loads(response_text)
ParseJson ==
    /\ pc = "loads"
    /\ LET r == JsonLoads(response_text)
       IN  IF r.ok
           THEN /\ action_items' = r.val
                /\ locals' = locals \cup {"action_items"}
                /\ pc' = "validate" /\ exc' = exc
           ELSE /\ pc' = "except" /\ exc' = "JSONDecodeError"
                /\ UNCHANGED <<action_items, locals>>
    /\ UNCHANGED <<transcript_content, transcript_text, inits, calls, response,
                   response_text, raised, result, diagnostics>>
    /\ UNCHANGED <<parserVars, appVars>>

\* lines 68-77: the validation loop and the return
Validate ==
    /\ pc = "validate"
    /\ IF IsIterable(action_items)
       THEN /\ result' = ValidateItems(Iterate(action_items))
            /\ pc' = "done" /\ exc' = exc
       ELSE /\ pc' = "except" /\ exc' = "TypeError"
            /\ result' = result
    /\ UNCHANGED <<transcript_content, transcript_text, locals, inits, calls,
                   response, response_text, action_items, raised, diagnostics>>
    /\ UNCHANGED <<parserVars, appVars>>

\* HandleJSONDecodeError without the st.code call of lines 81-82
HandleJSONDecodeErrorNoCode ==
    /\ pc = "except"
    /\ exc = "JSONDecodeError"
    /\ diagnostics' =
          Append(diagnostics, StError("Failed to parse Gemini response as JSON"))
    /\ result' = <<>>
    /\ pc' = "done"
    /\ UNCHANGED <<transcript_content, transcript_text, locals, inits, calls,
                   response, response_text, action_items, exc, raised>>
    /\ UNCHANGED <<parserVars, appVars>>

\* lines 79-83: except json.JSONDecodeError
HandleJSONDecodeError ==
    /\ pc = "except"
    /\ exc = "JSONDecodeError"
    /\ diagnostics' =
          diagnostics
          \o <<StError("Failed to parse Gemini response as JSON")>>
          \o (IF "response_text" \in locals THEN <<StCode(response_text)>> ELSE <<>>)
    /\ result' = <<>>
    /\ pc' = "done"
    /\ UNCHANGED <<transcript_content, transcript_text, locals, inits, calls,
                   response, response_text, action_items, exc, raised>>
    /\ UNCHANGED <<parserVars, appVars>>

\* lines 84-86: except Exception; any other exception leaves the function
HandleException ==
    /\ pc = "except"
    /\ exc # "JSONDecodeError"
    /\ IF CaughtByExcept(exc)
       THEN /\ diagnostics' =
                  Append(diagnostics, StError("Error processing transcript with Gemini"))
            /\ result' = <<>>
            /\ raised' = raised
       ELSE /\ raised' = TRUE
            /\ UNCHANGED <<diagnostics, result>>
    /\ pc' = "done"
    /\ UNCHANGED <<transcript_content, transcript_text, locals, inits, calls,
                   response, response_text, action_items, exc>>
    /\ UNCHANGED <<parserVars, appVars>>

\* app.py 189-194: Process shows the outcome of extract_action_items; a
\* non-empty list replaces the board's items
ProcessResult ==
    /\ pc = "done"
    /\ ~raised
    /\ IF result # <<>>
       THEN /\ session_action_items' = result
            /\ diagnostics' = Append(diagnostics, StSuccess("Extracted action item(s)"))
       ELSE /\ session_action_items' = session_action_items
            /\ diagnostics' =
                  Append(diagnostics, StWarning("No action items found in the transcript."))
    /\ pc' = "shown"
    /\ UNCHANGED <<transcript_content, transcript_text, locals, inits, calls,
                   response, response_text, action_items, exc, raised, result>>
    /\ UNCHANGED <<parserVars, driveVars, storeVars>>

\* app.py 22-31: the session state of a new session
AppIdle ==
    /\ session_action_items = <<>>
    /\ google_creds = None
    /\ transcripts = <<>>
    /\ selected_transcript = None
    /\ dpc = "idle"
    /\ search = [meeting_code |-> None, start_date |-> None, end_date |-> None]
    /\ all_files = <<>>
    /\ seen_file_ids = {}
    /\ requests = <<>>
    /\ files = None
    /\ drive_exc = "none"
    /\ drive_msgs = <<>>

\* nobody logged in, nothing stored
StoreIdle ==
    /\ user = None
    /\ store = <<>>
    /\ saved = <<>>
    /\ store_step = [op |-> "none", ok |-> TRUE]
    /\ store_msgs = <<>>

\* app.py 71-73: the steps of the main area are offered to a logged-in user
LoggedIn == user # None

\* a user logged in, nothing stored
StoreLoggedIn ==
    /\ user = Some(<<"u1">>)
    /\ store = <<>>
    /\ saved = <<>>
    /\ store_step = [op |-> "none", ok |-> TRUE]
    /\ store_msgs = <<>>

ParserIdle ==
    /\ raw_text = <<>>
    /\ cleaned = [done |-> FALSE, text |-> <<>>]
    /\ lines = <<>>
    /\ li = 0
    /\ parsed = <<>>
    /\ current_speaker = None
    /\ current_text = <<>>
    /\ ppc = "idle"
    /\ speakers = None

ExtractIdle ==
    /\ transcript_content = None
    /\ transcript_text = <<>>
    /\ pc = "idle"
    /\ locals = {}
    /\ inits = 0
    /\ calls = 0
    /\ response = EmptyResponse
    /\ response_text = <<>>
    /\ action_items = JNull
    /\ exc = "none"
    /\ raised = FALSE
    /\ result = <<>>
    /\ diagnostics = <<>>

InitExtract == ExtractIdle /\ ParserIdle /\ AppIdle /\ StoreLoggedIn

NextExtract ==
    \/ LoadTranscript
    \/ ProcessWithGemini
    \/ InitializeGemini
    \/ GenerateContent
    \/ UnwrapResponse
    \/ ParseJson
    \/ Validate
    \/ HandleJSONDecodeError
    \/ HandleException
    \/ ProcessResult

SpecExtract == InitExtract /\ [][NextExtract]_vars

-----------------------------------------------------------------------------
(* Properties of extract_action_items (SpecExtract).                       *)

Payload == JsonLoads(response_text)
PayloadParsed == "response_text" \in locals /\ Payload.ok

\* C1: for a non-empty input, whatever the generation capability does
\* (initialisation fails, the call raises, the response has no text, the
\* response is any text), extract_action_items ends by returning a list and
\* never by raising; after any failure the list is empty and a diagnostic has
\* been reported.
C1_NeverRaises ==
    /\ ~raised
    /\ (pc = "done" /\ transcript_text # <<>>) =>
          /\ DOMAIN result = 1..Len(result)
          /\ exc # "none" => result = <<>> /\ Len(diagnostics) >= 1

C1_Witness ==
    /\ pc = "done" /\ transcript_text # <<>>
    /\ exc = "ValueError" /\ "response" \in locals /\ ~response.has_text
    /\ result = <<>> /\ Len(diagnostics) = 1

\* the elements of array A that are objects holding the key task
Kept(A) == {i \in 1..Len(A) : A[i].t = "obj" /\ <<"task">> \in DOMAIN A[i].d}
\* the place among the kept elements of element i
Rank(A, i) == Cardinality({j \in Kept(A) : j <= i})

\* C2: when the payload parses to a JSON array A, the result holds, in the
\* order of A, one record for each element of A that is an object with the
\* key task and nothing for the other elements, which are dropped without a
\* diagnostic; each record has exactly the keys assignee, task, priority, with
\* assignee defaulting to "Unassigned", task the element's task (the empty
\* string included) and priority verbatim, defaulting to "Medium".
C2_ValidatedRecords ==
    (pc = "done" /\ PayloadParsed /\ Payload.val.t = "arr") =>
        LET A == Payload.val.items
        IN  /\ ~raised /\ diagnostics = <<>>
            /\ Len(result) = Cardinality(Kept(A))
            /\ \A i \in Kept(A) :
                  LET r == result[Rank(A, i)]
                      el == A[i].d
                  IN  /\ DOMAIN r = {"assignee", "task", "priority"}
                      /\ r.task = el[<<"task">>]
                      /\ r.assignee = IF <<"assignee">> \in DOMAIN el
                                      THEN el[<<"assignee">>]
                                      ELSE JStr(<<"Unassigned">>)
                      /\ r.priority = IF <<"priority">> \in DOMAIN el
                                      THEN el[<<"priority">>]
                                      ELSE JStr(<<"Medium">>)

C2_Witness ==
    /\ pc = "done" /\ PayloadParsed /\ Payload.val.t = "arr"
    /\ Len(Payload.val.items) = 2
    /\ Kept(Payload.val.items) = {2}
    /\ Len(result) = 1
    /\ result[1].task = JStr(<<>>)
    /\ result[1].assignee = JStr(<<"Unassigned">>)
    /\ result[1].priority = JStr(<<"x", " ", "x">>)

\* A fenced block, as the claim C3 reads it: a fence opens or closes a block
\* only at the start of a line, fences pair up in order, and a last fence
\* left open runs to the end of the text.  The block is labeled when "json"
\* follows its opening fence.
FenceStarts(t) ==
    SelectSeq([i \in 1..Len(t) |-> i],
              LAMBDA i : t[i] = FENCE /\ (i = 1 \/ t[i - 1] = NL))
BlockOpenings(t) == {k \in 1..Len(FenceStarts(t)) : k % 2 = 1}
BlockIsLabeled(t, k) == CharAt(t, FenceStarts(t)[k] + 1, "json")
BlockContent(t, k) ==
    LET F == FenceStarts(t)
        first == F[k] + (IF BlockIsLabeled(t, k) THEN 2 ELSE 1)
        last == IF k + 1 <= Len(F) THEN F[k + 1] - 1 ELSE Len(t)
    IN  SubSeq(t, first, last)
Smallest(S) == CHOOSE k \in S : \A j \in S : k <= j
ClaimedPayload(text) ==
    LET t == Strip(text)
        labeled == {k \in BlockOpenings(t) : BlockIsLabeled(t, k)}
    IN  IF labeled # {} THEN Strip(BlockContent(t, Smallest(labeled)))
        ELSE IF BlockOpenings(t) # {} THEN Strip(BlockContent(t, Smallest(BlockOpenings(t))))
        ELSE t
ItemsOf(payload) ==
    LET r == JsonLoads(payload)
    IN  IF r.ok /\ IsIterable(r.val) THEN ValidateItems(Iterate(r.val)) ELSE <<>>

\* C3: the payload is the content of the fenced block labeled as JSON if the
\* response holds one, otherwise the content of the generic fenced block if
\* it holds one, otherwise the whole trimmed response; so a bare valid JSON
\* array with no fenced block yields the items of that array.
C3_UnwrapPrecedence ==
    (pc = "done" /\ "response_text" \in locals) =>
        result = ItemsOf(ClaimedPayload(response.text))

\* C4: when the unwrapped payload is not valid JSON, extract returns the
\* empty list, does not raise, and reports a parse diagnostic followed by
\* the offending payload text.
C4_ParseFailure ==
    (pc = "done" /\ "response_text" \in locals /\ ~Payload.ok) =>
        /\ result = <<>>
        /\ ~raised
        /\ diagnostics = << StError("Failed to parse Gemini response as JSON"),
                            StCode(response_text) >>

C4_Witness ==
    /\ pc = "done" /\ "response_text" \in locals /\ ~Payload.ok
    /\ response.text = <<"x", "json">>
    /\ result = <<>>
    /\ diagnostics[2] = StCode(<<"x", "json">>)

\* C5: extract called with the empty text returns the empty list without
\* initialising or calling the generation capability; so a stored transcript
\* that clean_transcript reduces to the empty text never causes a call.
C5_EmptyInputNoCall ==
    /\ (pc = "done" /\ transcript_text = <<>>) =>
          result = <<>> /\ inits = 0 /\ calls = 0 /\ diagnostics = <<>>
    /\ (Truthy(transcript_content) /\ clean_transcript(transcript_content.v) = <<>>) =>
          inits = 0 /\ calls = 0 /\ pc \in {"idle", "done", "shown"}

C5_Witness ==
    /\ pc = "done" /\ transcript_text = <<>>
    /\ transcript_content = Some(<<"1", ":", "1", "1", " ">>)
    /\ result = <<>> /\ calls = 0

\* C6 as stated: every invocation with a non-empty input issues the
\* generation call exactly once.
C6_ExactlyOneCall ==
    (pc = "done" /\ transcript_text # <<>>) => calls = 1

\* C6, amended: an invocation with a non-empty input issues the generation
\* call at most once, and never again after the call failed or the response
\* failed to parse: exactly once when initialize_gemini() returned a model,
\* not at all when it raised.
C6_AtMostOneCall ==
    /\ calls <= 1
    /\ pc \in {"unwrap", "loads", "validate"} => calls = 1
    /\ (pc \in {"except", "done", "shown"} /\ transcript_text # <<>>) =>
          calls = (IF "model" \in locals THEN 1 ELSE 0)

C6_Witness ==
    /\ pc = "done" /\ transcript_text # <<>>
    /\ exc = "JSONDecodeError" /\ calls = 1 /\ inits = 1

\* C7: when the payload parses to a JSON value that is not an array, extract
\* returns the empty list and treats the value as "no valid items", not as a
\* raised error: no exception is raised and no error is reported.
C7_NonArrayIsNoItems ==
    (pc = "done" /\ PayloadParsed /\ Payload.val.t # "arr") =>
        result = <<>> /\ exc = "none" /\ diagnostics = <<>>

\* C8: every record of the returned list has a non-empty task.
C8_TaskNonEmpty ==
    pc = "done" => \A i \in 1..Len(result) : result[i].task # JStr(<<>>)


\* the messages shown, by the call that showed them
Shown(fn) == {diagnostics[i].msg : i \in {k \in 1..Len(diagnostics) : diagnostics[k].fn = fn}}
NO_ITEMS == "No action items found in the transcript."
CALL_FAILED == "Error processing transcript with Gemini"
UNPARSEABLE == "Failed to parse Gemini response as JSON"

\* C15: a Process step that produces no item tells its three outcomes
\* apart: after zero valid items the messages say that no action items were
\* found and report no error; after a failed call they report the failed
\* call, and after an unparseable response the parse failure, and in neither
\* case do they say that no action items were found.
C15_OutcomesDistinguished ==
    (pc = "shown" /\ result = <<>>) =>
        /\ exc = "none" =>
              Shown("st.warning") = {NO_ITEMS} /\ Shown("st.error") = {}
        /\ CaughtByExcept(exc) =>
              Shown("st.error") = {CALL_FAILED} /\ NO_ITEMS \notin Shown("st.warning")
        /\ exc = "JSONDecodeError" =>
              Shown("st.error") = {UNPARSEABLE} /\ NO_ITEMS \notin Shown("st.warning")
-----------------------------------------------------------------------------
(* components/transcript_parser.py: parse_transcript, one action per       *)
(* branch of the loop body, and clean_transcript as one action.            *)

Chars == {"1", ":", " ", NL, FF, "A", "b", "."}

ShortTranscripts == SeqsUpTo(Chars, MaxChars)

LineShapes ==
    { <<>>,
      <<"b">>,
      <<" ", "b", ".", " ">>,
      <<"A", "b", ":", " ", "b">>,
      <<"B", "a", " ", "b", ":", "b", ":", "b">>,
      <<"1", ":", "1", "1", " ", "A", "b", ":", " ", "b">>,
      <<"1", "1", ":", "1", "1", ":", "1", "1", " ", "b">>,
      <<"A", ":", " ", "b">>,
      <<"A", "b", ":">>,
      <<"1", ":", "1", "1">>,
      <<"U", "n", "k", "n", "o", "w", "n", ":", "b">> }

LinedTranscripts ==
    {Join(ls, <<NL>>) : ls \in UNION {[1..n -> LineShapes] : n \in 1..MaxLines}}

Transcripts == ShortTranscripts \cup LinedTranscripts

UNKNOWN == <<"U", "n", "k", "n", "o", "w", "n">>

\* lines 39-40: a leading timestamp (timestamp_pattern, anchored at the start
\* of the line) is removed and the line stripped again
StripTimestamp(line) ==
    LET e == TimestampEnd(line, 1)
    IN  IF e # 0 THEN Strip(SubSeq(line, e, Len(line))) ELSE line

\* the regex class [a-zA-Z\s]
IsNameChar(c) == IsUpper(c) \/ IsLower(c) \/ IsSpace(c)

RECURSIVE NameEnd(_, _)
NameEnd(line, i) ==
    IF i <= Len(line) /\ IsNameChar(line[i]) THEN NameEnd(line, i + 1) ELSE i

NoMatch == [matched |-> FALSE, name |-> <<>>, text |-> <<>>]

\* SpeakerMatch for a pattern ending in (.*): a header needs no text after
\* the colon
SpeakerMatchEmptyText(line) ==
    IF line = <<>> \/ ~IsUpper(line[1]) THEN NoMatch
    ELSE LET p == NameEnd(line, 2)
         IN  IF p < 3 \/ p > Len(line) \/ line[p] # ":" THEN NoMatch
             ELSE [ matched |-> TRUE,
                    name |-> SubSeq(line, 1, p - 1),
                    text |-> LStrip(SubSeq(line, p + 1, Len(line))) ]

\* speaker_pattern.match(line) on a line without newline:
\* ^([A-Z][a-zA-Z\s]+):\s*(.+)$ ; group(1) is the longest run of name
\* characters, which must end at a colon; \s* gives back a character when
\* nothing else is left for (.+)
SpeakerMatch(line) ==
    IF line = <<>> \/ ~IsUpper(line[1]) THEN NoMatch
    ELSE LET p == NameEnd(line, 2)
         IN  IF p < 3 \/ p > Len(line) \/ line[p] # ":" THEN NoMatch
             ELSE LET rest == SubSeq(line, p + 1, Len(line))
                  IN  IF rest = <<>> THEN NoMatch
                      ELSE [ matched |-> TRUE,
                             name |-> SubSeq(line, 1, p - 1),
                             text |-> IF LStrip(rest) # <<>> THEN LStrip(rest)
                                      ELSE <<rest[Len(rest)]>> ]

Turn(speaker, text) == [speaker |-> speaker, text |-> text]

\* Flush keeping only the first segment of the turn's text
FlushFirstOnly(out, speaker, texts) ==
    IF Truthy(speaker) /\ texts # <<>>
    THEN Append(out, Turn(speaker.v, texts[1]))
    ELSE out

\* lines 46-51 and 71-75: the turn in progress is appended when a speaker
\* is set and its text list is not empty
Flush(out, speaker, texts) ==
    IF Truthy(speaker) /\ texts # <<>>
    THEN Append(out, Turn(speaker.v, Join(texts, <<" ">>)))
    ELSE out

\* the line the loop body works on (lines 33, 39-40)
CurrentLine == StripTimestamp(Strip(lines[li + 1]))

InLoop == ppc = "scan" /\ li < Len(lines)

\* lines 16-30: an empty text returns []; otherwise the text is split
ParseStart ==
    /\ ppc = "idle"
    /\ IF raw_text = <<>>
       THEN ppc' = "parsed" /\ lines' = lines
       ELSE ppc' = "scan" /\ lines' = Split(raw_text, <<NL>>)
    /\ li' = 0 /\ parsed' = <<>> /\ current_speaker' = None /\ current_text' = <<>>
    /\ UNCHANGED <<raw_text, cleaned>>
    /\ UNCHANGED <<speakers, extractVars, appVars>>

\* SkipBlankLine without the continue of line 36: the blank line goes through
\* the branches of lines 55-68 as an empty text
SkipBlankLineAsText ==
    /\ InLoop
    /\ Strip(lines[li + 1]) = <<>>
    /\ IF Truthy(current_speaker)
       THEN current_text' = Append(current_text, <<>>) /\ parsed' = parsed
       ELSE IF parsed # <<>>
       THEN /\ parsed' = [parsed EXCEPT ![Len(parsed)].text = @ \o <<" ">>]
            /\ current_text' = current_text
       ELSE parsed' = <<Turn(UNKNOWN, <<>>)>> /\ current_text' = current_text
    /\ li' = li + 1
    /\ UNCHANGED <<raw_text, cleaned, lines, current_speaker, ppc>>
    /\ UNCHANGED <<speakers, extractVars, appVars>>

\* lines 33-36: a blank line is skipped
SkipBlankLine ==
    /\ InLoop
    /\ Strip(lines[li + 1]) = <<>>
    /\ li' = li + 1
    /\ UNCHANGED <<raw_text, cleaned, lines, parsed, current_speaker, current_text, ppc>>
    /\ UNCHANGED <<speakers, extractVars, appVars>>

\* SpeakerLine folding a header that repeats the current speaker into the
\* turn in progress
SpeakerLineMerge ==
    /\ InLoop
    /\ Strip(lines[li + 1]) # <<>>
    /\ SpeakerMatch(CurrentLine).matched
    /\ IF current_speaker = Some(Strip(SpeakerMatch(CurrentLine).name))
       THEN /\ parsed' = parsed
            /\ current_text' = Append(current_text, Strip(SpeakerMatch(CurrentLine).text))
       ELSE /\ parsed' = Flush(parsed, current_speaker, current_text)
            /\ current_text' = <<Strip(SpeakerMatch(CurrentLine).text)>>
    /\ current_speaker' = Some(Strip(SpeakerMatch(CurrentLine).name))
    /\ li' = li + 1
    /\ UNCHANGED <<raw_text, cleaned, lines, ppc>>
    /\ UNCHANGED <<speakers, extractVars, appVars>>

\* lines 43-54: a speaker header closes the turn in progress and starts one
SpeakerLine ==
    /\ InLoop
    /\ Strip(lines[li + 1]) # <<>>
    /\ SpeakerMatch(CurrentLine).matched
    /\ parsed' = Flush(parsed, current_speaker, current_text)
    /\ current_speaker' = Some(Strip(SpeakerMatch(CurrentLine).name))
    /\ current_text' = <<Strip(SpeakerMatch(CurrentLine).text)>>
    /\ li' = li + 1
    /\ UNCHANGED <<raw_text, cleaned, lines, ppc>>
    /\ UNCHANGED <<speakers, extractVars, appVars>>

\* ContinuationLine with the test of line 59 taken first: the line goes to
\* the last emitted turn when there is one
ContinuationLineGlue ==
    /\ InLoop
    /\ Strip(lines[li + 1]) # <<>>
    /\ ~SpeakerMatch(CurrentLine).matched
    /\ Truthy(current_speaker)
    /\ IF parsed # <<>>
       THEN /\ parsed' = [parsed EXCEPT ![Len(parsed)].text = @ \o <<" ">> \o CurrentLine]
            /\ current_text' = current_text
       ELSE /\ current_text' = Append(current_text, CurrentLine)
            /\ parsed' = parsed
    /\ li' = li + 1
    /\ UNCHANGED <<raw_text, cleaned, lines, current_speaker, ppc>>
    /\ UNCHANGED <<speakers, extractVars, appVars>>

\* lines 55-58: another line of the current speaker
ContinuationLine ==
    /\ InLoop
    /\ Strip(lines[li + 1]) # <<>>
    /\ ~SpeakerMatch(CurrentLine).matched
    /\ Truthy(current_speaker)
    /\ current_text' = Append(current_text, CurrentLine)
    /\ li' = li + 1
    /\ UNCHANGED <<raw_text, cleaned, lines, parsed, current_speaker, ppc>>
    /\ UNCHANGED <<speakers, extractVars, appVars>>

\* GlueLine opening a further "Unknown" turn for the line
GlueLineNewTurn ==
    /\ InLoop
    /\ Strip(lines[li + 1]) # <<>>
    /\ ~SpeakerMatch(CurrentLine).matched
    /\ ~Truthy(current_speaker)
    /\ parsed # <<>>
    /\ parsed' = Append(parsed, Turn(UNKNOWN, CurrentLine))
    /\ li' = li + 1
    /\ UNCHANGED <<raw_text, cleaned, lines, current_speaker, current_text, ppc>>
    /\ UNCHANGED <<speakers, extractVars, appVars>>

\* lines 59-62: no speaker yet and a turn emitted: the line is glued to the
\* text of the last emitted turn
GlueLine ==
    /\ InLoop
    /\ Strip(lines[li + 1]) # <<>>
    /\ ~SpeakerMatch(CurrentLine).matched
    /\ ~Truthy(current_speaker)
    /\ parsed # <<>>
    /\ parsed' = [parsed EXCEPT ![Len(parsed)].text = @ \o <<" ">> \o CurrentLine]
    /\ li' = li + 1
    /\ UNCHANGED <<raw_text, cleaned, lines, current_speaker, current_text, ppc>>
    /\ UNCHANGED <<speakers, extractVars, appVars>>

\* lines 63-68: the first line without a speaker opens the "Unknown" turn
UnknownLine ==
    /\ InLoop
    /\ Strip(lines[li + 1]) # <<>>
    /\ ~SpeakerMatch(CurrentLine).matched
    /\ ~Truthy(current_speaker)
    /\ parsed = <<>>
    /\ parsed' = <<Turn(UNKNOWN, CurrentLine)>>
    /\ li' = li + 1
    /\ UNCHANGED <<raw_text, cleaned, lines, current_speaker, current_text, ppc>>
    /\ UNCHANGED <<speakers, extractVars, appVars>>

\* lines 70-77: the last turn in progress is appended and parsed returned
ParseFinish ==
    /\ ppc = "scan"
    /\ li = Len(lines)
    /\ parsed' = Flush(parsed, current_speaker, current_text)
    /\ ppc' = "parsed"
    /\ UNCHANGED <<raw_text, cleaned, lines, li, current_speaker, current_text>>
    /\ UNCHANGED <<speakers, extractVars, appVars>>

\* lines 80-102: clean_transcript(raw_text)
CleanTranscript ==
    /\ ppc = "idle"
    /\ cleaned' = [done |-> TRUE, text |-> clean_transcript(raw_text)]
    /\ ppc' = "cleaned"
    /\ UNCHANGED <<raw_text, lines, li, parsed, current_speaker, current_text>>
    /\ UNCHANGED <<speakers, extractVars, appVars>>

\* lines 32-68: the loop body, from the locals before a line to the locals
\* after it
LoopBody(st, raw_line) ==
    LET l == StripTimestamp(Strip(raw_line))
        m == SpeakerMatch(l)
    IN  IF Strip(raw_line) = <<>> THEN st
        ELSE IF m.matched
        THEN [ parsed |-> Flush(st.parsed, st.current_speaker, st.current_text),
               current_speaker |-> Some(Strip(m.name)),
               current_text |-> <<Strip(m.text)>> ]
        ELSE IF Truthy(st.current_speaker)
        THEN [st EXCEPT !.current_text = Append(@, l)]
        ELSE IF st.parsed # <<>>
        THEN [st EXCEPT !.parsed[Len(st.parsed)].text = @ \o <<" ">> \o l]
        ELSE [st EXCEPT !.parsed = <<Turn(UNKNOWN, l)>>]

RECURSIVE Loop(_, _)
Loop(st, ls) == IF ls = <<>> THEN st ELSE Loop(LoopBody(st, Head(ls)), Tail(ls))

\* lines 16-77: parse_transcript(raw_text) as a function of its argument
parse_transcript(raw) ==
    IF raw = <<>> THEN <<>>
    ELSE LET st == Loop([parsed |-> <<>>, current_speaker |-> None,
                         current_text |-> <<>>], Split(raw, <<NL>>))
         IN  Flush(st.parsed, st.current_speaker, st.current_text)

\* the characters of the model in the order of their code points
CodeOrder == <<NL, FF, " ", ".", "1", ":", "A", "B", "U", "a", "b", "k", "n", "o", "w">>
Ord(c) == CHOOSE i \in 1..Len(CodeOrder) : CodeOrder[i] = c

\* a < b for two str
RECURSIVE StrLess(_, _)
StrLess(a, b) ==
    IF b = <<>> THEN FALSE
    ELSE IF a = <<>> THEN TRUE
    ELSE IF a[1] # b[1] THEN Ord(a[1]) < Ord(b[1])
    ELSE StrLess(Tail(a), Tail(b))

\* sorted(list(S)) for a set of str
RECURSIVE Sorted(_)
Sorted(S) ==
    IF S = {} THEN <<>>
    ELSE LET m == CHOOSE x \in S : \A y \in S \ {x} : StrLess(x, y)
         IN  <<m>> \o Sorted(S \ {m})

\* extract_speakers listing the speakers in the order of their first turn
RECURSIVE extract_speakers_in_order(_)
extract_speakers_in_order(parsed_transcript) ==
    IF parsed_transcript = <<>> THEN <<>>
    ELSE LET n == Len(parsed_transcript)
             front == extract_speakers_in_order(SubSeq(parsed_transcript, 1, n - 1))
             sp == parsed_transcript[n].speaker
         IN  IF sp = <<>> \/ \E i \in 1..Len(front) : front[i] = sp
             THEN front ELSE Append(front, sp)

\* lines 115-119: the set of the truthy speaker values, sorted
extract_speakers(parsed_transcript) ==
    Sorted({ parsed_transcript[i].speaker :
                 i \in {j \in 1..Len(parsed_transcript) :
                            parsed_transcript[j].speaker # <<>>} })

\* lines 105-119: extract_speakers(parsed) on the turns parse returned
ExtractSpeakers ==
    /\ ppc = "parsed"
    /\ speakers' = Some(extract_speakers(parsed))
    /\ ppc' = "speakers"
    /\ UNCHANGED <<raw_text, cleaned, lines, li, parsed, current_speaker, current_text>>
    /\ UNCHANGED <<extractVars, appVars>>

InitParser ==
    /\ ExtractIdle
    /\ AppIdle
    /\ StoreIdle
    /\ raw_text \in Transcripts
    /\ cleaned = [done |-> FALSE, text |-> <<>>]
    /\ lines = <<>>
    /\ li = 0
    /\ parsed = <<>>
    /\ current_speaker = None
    /\ current_text = <<>>
    /\ ppc = "idle"
    /\ speakers = None

NextParser ==
    \/ CleanTranscript
    \/ ParseStart
    \/ SkipBlankLine
    \/ SpeakerLine
    \/ ContinuationLine
    \/ GlueLine
    \/ UnknownLine
    \/ ParseFinish
    \/ ExtractSpeakers

SpecParser == InitParser /\ [][NextParser]_vars

-----------------------------------------------------------------------------
(* Properties of clean_transcript and parse_transcript (SpecParser).       *)

\* a clock-style timestamp (digits, colon, two digits) somewhere in s
HasClock(s) ==
    \E i \in 1..Len(s) :
        DigitAt(s, i) /\ CharAt(s, i + 1, ":") /\ DigitAt(s, i + 2) /\ DigitAt(s, i + 3)

\* C9: clean(t) is in normal form for every t: no clock-style timestamp
\* anywhere (at the end of the text and formed by a removal included), no
\* run of two whitespace characters, no newline, no form feed, no leading or
\* trailing whitespace.
C9_CleanNormalForm ==
    cleaned.done =>
        LET t == cleaned.text
        IN  /\ ~HasClock(t)
            /\ \A i \in 1..Len(t) : t[i] \notin {NL, FF}
            /\ \A i \in 1..(Len(t) - 1) : ~(IsSpace(t[i]) /\ IsSpace(t[i + 1]))
            /\ t # <<>> => ~IsSpace(t[1]) /\ ~IsSpace(t[Len(t)])

\* what a line gives to the output: the stripped line without its leading
\* timestamp, and for a speaker header the text after the colon
Contribution(line) ==
    LET l == StripTimestamp(Strip(line))
        m == SpeakerMatch(l)
    IN  IF m.matched THEN Strip(m.text) ELSE l
NonBlank(ls) == SelectSeq(ls, LAMBDA l : Strip(l) # <<>>)
Contributions(ls) == [i \in 1..Len(NonBlank(ls)) |-> Contribution(NonBlank(ls)[i])]
TurnTexts == [i \in 1..Len(parsed) |-> parsed[i].text]
PendingTexts == IF ppc = "scan" /\ Truthy(current_speaker) THEN current_text ELSE <<>>

\* C10: parse drops no utterance text: the texts of the output turns, in
\* order and joined by single spaces, are the contributions of the non-blank
\* lines of the input in the order of the lines; while scanning, the same
\* holds of the lines read so far with the turn in progress counted in.
C10_NoTextDropped ==
    /\ ppc = "scan" =>
          Join(TurnTexts \o PendingTexts, <<" ">>)
              = Join(Contributions(SubSeq(lines, 1, li)), <<" ">>)
    /\ ppc = "parsed" =>
          Join(TurnTexts, <<" ">>)
              = Join(Contributions(Split(raw_text, <<NL>>)), <<" ">>)

C10_Witness ==
    /\ ppc = "parsed"
    /\ raw_text = Join(<< <<"1", ":", "1", "1", " ", "A", "b", ":", " ", "b">>,
                          <<"b">>,
                          <<"B", "a", " ", "b", ":", "b", ":", "b">> >>, <<NL>>)
    /\ parsed = << Turn(<<"A", "b">>, <<"b", " ", "b">>),
                   Turn(<<"B", "a", " ", "b">>, <<"b", ":", "b">>) >>

\* the lines the loop body works on: the non-blank lines, stripped and
\* without their leading timestamp
BodyLines(ls) ==
    [i \in 1..Len(NonBlank(ls)) |-> StripTimestamp(Strip(NonBlank(ls)[i]))]
IsHeader(l) == SpeakerMatch(l).matched
HeaderIndexes(b) == {i \in 1..Len(b) : IsHeader(b[i])}
\* the last line of the block the header at i opens
BlockEnd(b, i) ==
    IF \E j \in HeaderIndexes(b) : j > i
    THEN (CHOOSE j \in HeaderIndexes(b) :
              j > i /\ \A k \in HeaderIndexes(b) : k > i => j <= k) - 1
    ELSE Len(b)
\* the turn of the header at i: the trimmed name, and the header's text
\* followed by the lines of its block
HeaderTurn(b, i) ==
    Turn(Strip(SpeakerMatch(b[i]).name),
         Join(<<Strip(SpeakerMatch(b[i]).text)>> \o SubSeq(b, i + 1, BlockEnd(b, i)),
              <<" ">>))
\* the i-th smallest element of a set of numbers
RECURSIVE Nth(_, _)
Nth(S, i) ==
    LET m == CHOOSE x \in S : \A y \in S : x <= y
    IN  IF i = 1 THEN m ELSE Nth(S \ {m}, i - 1)
\* the output without the turn of the unattributed lines before the first
\* header
TurnsOfHeaders(b, out) ==
    IF b # <<>> /\ ~IsHeader(b[1]) THEN SubSeq(out, 2, Len(out)) ELSE out

\* C11: parse emits exactly one turn per speaker header line, in document
\* order: its speaker is the trimmed name of the header (leading timestamp
\* removed) and its text is the header's text after the colon followed by
\* every later non-blank non-header line up to the next header or the end,
\* joined by single spaces.
C11_OneTurnPerHeader ==
    ppc = "parsed" =>
        LET b == BodyLines(Split(raw_text, <<NL>>))
            H == HeaderIndexes(b)
            t == TurnsOfHeaders(b, parsed)
        IN  /\ Len(t) = Cardinality(H)
            /\ \A k \in 1..Len(t) : t[k] = HeaderTurn(b, Nth(H, k))

C11_Witness ==
    /\ ppc = "parsed"
    /\ raw_text = Join(<< <<"A", "b", ":", " ", "b">>,
                          <<"A", "b", ":", " ", "b">>,
                          <<"b">> >>, <<NL>>)
    /\ parsed = << Turn(<<"A", "b">>, <<"b">>),
                   Turn(<<"A", "b">>, <<"b", " ", "b">>) >>

\* s is t followed by a space and more text
ExtendedBy(t, s) ==
    /\ Len(s) > Len(t) + 1
    /\ SubSeq(s, 1, Len(t) + 1) = t \o <<" ">>

\* C12: during the line scan an emitted turn is changed in place only while
\* no speaker has been identified yet, and then it is the leading "Unknown"
\* turn whose text is extended; a speaker once identified stays identified,
\* so after a speaker header has been processed the speaker and the text of
\* every emitted turn stay as they are.
C12_EmittedTurnsStable ==
    [][ ppc = "scan" =>
          /\ Len(parsed') >= Len(parsed)
          /\ Truthy(current_speaker) => Truthy(current_speaker')
          /\ \A i \in 1..Len(parsed) :
                \/ parsed'[i] = parsed[i]
                \/ /\ ~Truthy(current_speaker)
                   /\ i = 1 /\ Len(parsed) = 1
                   /\ parsed[1].speaker = UNKNOWN
                   /\ parsed'[1].speaker = UNKNOWN
                   /\ ExtendedBy(parsed[1].text, parsed'[1].text) ]_vars

C12_Witness ==
    /\ ppc = "scan"
    /\ current_speaker = Some(<<"A", "b">>)
    /\ parsed = << Turn(UNKNOWN, <<"b", " ", "b">>) >>

\* C13: parse and clean are defined on every text.  When no line of the
\* input is a speaker header, parse returns no turn if the input is empty or
\* all blank, and otherwise exactly one turn, of speaker "Unknown", whose
\* text is the non-blank lines (leading timestamps removed) joined by single
\* spaces; parse("") is empty and clean("") is the empty text.
C13_NoHeaderInput ==
    /\ ppc = "parsed" =>
          LET b == BodyLines(Split(raw_text, <<NL>>))
          IN  /\ raw_text = <<>> => parsed = <<>>
              /\ HeaderIndexes(b) = {} =>
                    parsed = IF b = <<>> THEN <<>>
                             ELSE <<Turn(UNKNOWN, Join(b, <<" ">>))>>
    /\ cleaned.done /\ raw_text = <<>> => cleaned.text = <<>>
    /\ ppc = "scan" => li <= Len(lines)

C13_Witness ==
    /\ ppc = "parsed"
    /\ raw_text = Join(<< <<"b">>,
                          <<" ", "b", ".", " ">>,
                          <<"1", "1", ":", "1", "1", ":", "1", "1", " ", "b">> >>, <<NL>>)
    /\ parsed = << Turn(UNKNOWN, <<"b", " ", "b", ".", " ", "b">>) >>

\* C14: extract_speakers returns the distinct speaker values of the turns
\* as a strictly increasing list (sorted as str, without duplicates) and
\* leaves the turns as they were.
C14_SpeakersSortedDistinct ==
    /\ [](ppc = "speakers" =>
            /\ {speakers.v[i] : i \in 1..Len(speakers.v)}
                  = {parsed[i].speaker : i \in 1..Len(parsed)}
            /\ \A i \in 1..(Len(speakers.v) - 1) :
                  StrLess(speakers.v[i], speakers.v[i + 1]))
    /\ [][ppc' = "speakers" => parsed' = parsed]_vars

C14_Witness ==
    /\ ppc = "speakers"
    /\ parsed = << Turn(<<"B", "a", " ", "b">>, <<"b", ":", "b">>),
                   Turn(<<"A", "b">>, <<"b">>),
                   Turn(<<"A", "b">>, <<"b">>) >>
    /\ speakers = Some(<< <<"A", "b">>, <<"B", "a", " ", "b">> >>)

\* a line made of a name (an uppercase letter, then only letters and
\* whitespace), a colon and a non-empty rest
IsLetter(c) == IsUpper(c) \/ IsLower(c)
NamedHeader(l) ==
    \E p \in 2..(Len(l) - 1) :
        /\ IsUpper(l[1])
        /\ \A i \in 2..(p - 1) : IsLetter(l[i]) \/ IsSpace(l[i])
        /\ l[p] = ":"

\* the line just read was taken as a speaker header: it opened the turn in
\* progress
TakenAsHeader == Truthy(current_speaker) /\ Len(current_text) = 1

\* C19: a (timestamp-stripped) non-blank line is taken as a speaker header
\* if and only if it is a name that starts with an uppercase letter and
\* otherwise holds only letters and spaces, then a colon, then a non-empty
\* rest; a one-letter name such as "A: hello" is such a name.
C19_HeaderDetection ==
    (ppc = "scan" /\ li > 0 /\ Strip(lines[li]) # <<>>) =>
        (NamedHeader(StripTimestamp(Strip(lines[li]))) <=> TakenAsHeader)

\* empty and whitespace-only lines
BlankLines == { <<>>, <<" ">>, <<FF, " ">> }
InsertAt(ls, k, l) == SubSeq(ls, 1, k) \o <<l>> \o SubSeq(ls, k + 1, Len(ls))
RemoveAt(ls, k) == SubSeq(ls, 1, k - 1) \o SubSeq(ls, k + 1, Len(ls))

\* C20: blank lines are transparent to parse: the turns parse returns for a
\* text are the turns it returns for the text with an empty or
\* whitespace-only line inserted at any position, with any one of its blank
\* lines removed, and with all of them removed.
C20_BlankLinesTransparent ==
    ppc = "parsed" =>
        LET ls == Split(raw_text, <<NL>>)
        IN  /\ parsed = parse_transcript(raw_text)
            /\ \A k \in 0..Len(ls) : \A w \in BlankLines :
                  parse_transcript(Join(InsertAt(ls, k, w), <<NL>>)) = parsed
            /\ \A k \in 1..Len(ls) :
                  Strip(ls[k]) = <<>> =>
                      parse_transcript(Join(RemoveAt(ls, k), <<NL>>)) = parsed
            /\ parse_transcript(Join(NonBlank(ls), <<NL>>)) = parsed

C20_Witness ==
    /\ ppc = "parsed"
    /\ raw_text = Join(<< <<"A", "b", ":", " ", "b">>, <<>>, <<"b">> >>, <<NL>>)
    /\ parsed = << Turn(<<"A", "b">>, <<"b", " ", "b">>) >>


\* the lines before the first speaker header
Unattributed(b) ==
    IF HeaderIndexes(b) = {} THEN b ELSE SubSeq(b, 1, Nth(HeaderIndexes(b), 1) - 1)

\* C21 as stated: every turn parse emits has a non-empty speaker and a
\* non-empty text, and a turn of speaker "Unknown" is the first turn and
\* stands for the unattributed lines before the first speaker header.
C21_UnknownOnlyUnattributed ==
    /\ \A i \in 1..Len(parsed) : parsed[i].speaker # <<>> /\ parsed[i].text # <<>>
    /\ ppc = "parsed" =>
          LET b == BodyLines(Split(raw_text, <<NL>>))
          IN  \A i \in 1..Len(parsed) :
                  parsed[i].speaker = UNKNOWN =>
                      /\ i = 1
                      /\ Unattributed(b) # <<>>
                      /\ parsed[i].text = Join(Unattributed(b), <<" ">>)

\* C21: every turn parse emits has a non-empty speaker and a non-empty
\* text; a turn of speaker "Unknown" is either the first turn, standing for
\* the unattributed lines before the first speaker header, or the turn of a
\* speaker header whose name is "Unknown".
C21_TurnsNonEmpty ==
    /\ \A i \in 1..Len(parsed) : parsed[i].speaker # <<>> /\ parsed[i].text # <<>>
    /\ ppc = "parsed" =>
          LET b == BodyLines(Split(raw_text, <<NL>>))
              first == IF Unattributed(b) # <<>> THEN 1 ELSE 0
          IN  \A i \in 1..Len(parsed) :
                  parsed[i].speaker = UNKNOWN =>
                      \/ /\ i = first
                         /\ parsed[i].text = Join(Unattributed(b), <<" ">>)
                      \/ /\ i > first
                         /\ Strip(SpeakerMatch(b[Nth(HeaderIndexes(b), i - first)]).name)
                               = UNKNOWN

C21_Witness ==
    /\ ppc = "parsed"
    /\ raw_text = Join(<< <<"b">>, <<"A", "b", ":", " ", "b">>,
                          <<"U", "n", "k", "n", "o", "w", "n", ":", "b">> >>, <<NL>>)
    /\ parsed = << Turn(UNKNOWN, <<"b">>),
                   Turn(<<"A", "b">>, <<"b">>),
                   Turn(UNKNOWN, <<"b">>) >>
-----------------------------------------------------------------------------
(* utils/google_auth.py and components/drive_connector.py: the Search      *)
(* Transcripts and Load Transcript steps of app.py.                        *)

MaxFiles == 2        \* documents in the answer to one Drive request

FileIds == {"f1", "f2"}
File(id) == [id |-> id]
\* the answers Drive gives to a files().list request
FileLists == {[i \in 1..Len(ids) |-> File(ids[i])] : ids \in SeqsUpTo(FileIds, MaxFiles)}
\* what the user types as meeting code
TypedCodes == { <<>>, <<" ">>, <<"a", "-", "b">> }
\* the exported documents
Documents == LoadedTranscripts

CREDS == Some(<<"creds">>)
StInfo(m) == [fn |-> "st.info", msg |-> m, body |-> <<>>]
\* a request, whether it succeeded, its answer (the files found, the text
\* exported) and the error it raised
Request(req, ok, answer, err) == [req |-> req, ok |-> ok, answer |-> answer, err |-> err]

\* the loop of lines 142-145 without the test on seen_file_ids
AddFoundAll(acc, found) ==
    [all |-> acc.all \o found,
     seen |-> acc.seen \cup {found[i].id : i \in 1..Len(found)}]

\* google_auth.py 142-145 and 194-197: the files not seen yet are appended
RECURSIVE AddFound(_, _)
AddFound(acc, found) ==
    IF found = <<>> THEN acc
    ELSE AddFound(IF Head(found).id \in acc.seen THEN acc
                  ELSE [all |-> Append(acc.all, Head(found)),
                        seen |-> acc.seen \cup {Head(found).id}],
                  Tail(found))

\* app.py 77-81: Google Drive gets connected
ConnectGoogleDrive ==
    /\ LoggedIn
    /\ dpc \in {"idle", "searched", "loaded"}
    /\ google_creds = None
    /\ google_creds' = CREDS
    /\ UNCHANGED <<transcripts, selected_transcript, dpc, search, all_files,
                   seen_file_ids, requests, files, drive_exc, drive_msgs>>
    /\ UNCHANGED <<extractVars, parserVars, session_action_items, storeVars>>

\* app.py 86-88: Reconnect Google Drive
ReconnectGoogleDrive ==
    /\ LoggedIn
    /\ dpc \in {"idle", "searched", "loaded"}
    /\ google_creds # None
    /\ google_creds' = None
    /\ UNCHANGED <<transcripts, selected_transcript, dpc, search, all_files,
                   seen_file_ids, requests, files, drive_exc, drive_msgs>>
    /\ UNCHANGED <<extractVars, parserVars, session_action_items, storeVars>>

\* app.py 91-143, drive_connector.py 66-70, google_auth.py 103-130: Search
\* Transcripts calls fetch_transcripts, which calls list_drive_files
SearchTranscripts ==
    /\ LoggedIn
    /\ dpc \in {"idle", "searched", "loaded"}
    /\ Truthy(google_creds)
    /\ transcripts = <<>>
    /\ \E typed \in TypedCodes, use_date_range \in BOOLEAN :
          search' = [ meeting_code |-> IF typed # <<>> THEN Some(Strip(typed)) ELSE None,
                      start_date |-> IF use_date_range THEN Some(<<"1">>) ELSE None,
                      end_date |-> IF use_date_range THEN Some(<<"1">>) ELSE None ]
    /\ all_files' = <<>> /\ seen_file_ids' = {} /\ requests' = <<>>
    /\ files' = None /\ drive_exc' = "none" /\ drive_msgs' = <<>>
    /\ dpc' = "build"
    /\ UNCHANGED <<google_creds, transcripts, selected_transcript>>
    /\ UNCHANGED <<extractVars, parserVars, session_action_items, storeVars>>

\* google_auth.py 206-222: the messages of the two outer handlers
ListErrorMessages(e) ==
    IF e = "HttpError403"
    THEN << StError("Access Denied (403)"), StError("Reason"),
            StInfo("Please ensure you have granted the necessary permissions") >>
    ELSE IF e = "HttpError" THEN << StError("Error fetching files") >>
    ELSE << StError("Unexpected error") >>

\* google_auth.py 104 and 206-222: build() returns the service, or raises
\* and list_drive_files returns None
BuildService ==
    /\ dpc = "build"
    /\ \/ dpc' = "global" /\ UNCHANGED <<files, drive_msgs>>
       \/ \E e \in {"HttpError403", "HttpError", "Exception"} :
             /\ files' = None
             /\ drive_msgs' = drive_msgs \o ListErrorMessages(e)
             /\ dpc' = "listed"
    /\ UNCHANGED <<google_creds, transcripts, selected_transcript, search,
                   all_files, seen_file_ids, requests, drive_exc>>
    /\ UNCHANGED <<extractVars, parserVars, session_action_items, storeVars>>

\* google_auth.py 152: the folder search is made when nothing was found or a
\* meeting code was given
SearchesFolder(found_so_far, s) == found_so_far = <<>> \/ Truthy(s.meeting_code)

\* google_auth.py 133-152: the global search; a failure is shown as a warning
\* and the function goes on
GlobalSearch ==
    /\ dpc = "global"
    /\ \/ \E found \in FileLists :
             LET acc == AddFound([all |-> all_files, seen |-> seen_file_ids], found)
             IN  /\ all_files' = acc.all
                 /\ seen_file_ids' = acc.seen
                 /\ requests' = Append(requests, Request("global", TRUE, found, "none"))
                 /\ drive_msgs' = drive_msgs
       \/ /\ requests' = Append(requests, Request("global", FALSE, <<>>, "Exception"))
          /\ drive_msgs' = Append(drive_msgs, StWarning("Global search failed"))
          /\ UNCHANGED <<all_files, seen_file_ids>>
    /\ IF SearchesFolder(all_files', search)
       THEN dpc' = "folder" /\ files' = files
       ELSE dpc' = "listed" /\ files' = Some(all_files')
    /\ UNCHANGED <<google_creds, transcripts, selected_transcript, search, drive_exc>>
    /\ UNCHANGED <<extractVars, parserVars, session_action_items, storeVars>>

\* google_auth.py 198-203: a failure of the folder search is shown only when
\* nothing was found
FolderFailureMessages ==
    IF all_files = <<>>
    THEN << StWarning("Search in 'Meet Recordings' folder failed") >>
    ELSE <<>>

\* google_auth.py 153-163 and 198-205: the request for the "Meet Recordings"
\* folder
FindFolder ==
    /\ dpc = "folder"
    /\ \/ /\ requests' = Append(requests, Request("folder", TRUE, <<File("folder")>>, "none"))
          /\ dpc' = "folder_files"
          /\ UNCHANGED <<files, drive_msgs>>
       \/ /\ requests' = Append(requests, Request("folder", TRUE, <<>>, "none"))
          /\ dpc' = "listed"
          /\ files' = Some(all_files)
          /\ drive_msgs' = drive_msgs
       \/ /\ requests' = Append(requests, Request("folder", FALSE, <<>>, "Exception"))
          /\ dpc' = "listed"
          /\ files' = Some(all_files)
          /\ drive_msgs' = drive_msgs \o FolderFailureMessages
    /\ UNCHANGED <<google_creds, transcripts, selected_transcript, search,
                   all_files, seen_file_ids, drive_exc>>
    /\ UNCHANGED <<extractVars, parserVars, session_action_items, storeVars>>

\* google_auth.py 164-205: the search in the folder and the return
FolderSearch ==
    /\ dpc = "folder_files"
    /\ \/ \E found \in FileLists :
             LET acc == AddFound([all |-> all_files, seen |-> seen_file_ids], found)
             IN  /\ all_files' = acc.all
                 /\ seen_file_ids' = acc.seen
                 /\ requests' = Append(requests, Request("folder_files", TRUE, found, "none"))
                 /\ drive_msgs' = drive_msgs
       \/ /\ requests' = Append(requests, Request("folder_files", FALSE, <<>>, "Exception"))
          /\ drive_msgs' = drive_msgs \o FolderFailureMessages
          /\ UNCHANGED <<all_files, seen_file_ids>>
    /\ files' = Some(all_files')
    /\ dpc' = "listed"
    /\ UNCHANGED <<google_creds, transcripts, selected_transcript, search, drive_exc>>
    /\ UNCHANGED <<extractVars, parserVars, session_action_items, storeVars>>

\* drive_connector.py 82-86: the messages of an empty result
NothingFoundMessages(s) ==
    << StWarning("No transcripts found matching your criteria.") >>
    \o (IF Truthy(s.meeting_code)
        THEN << StInfo("No transcripts found with meeting code") >> ELSE <<>>)
    \o (IF Truthy(s.start_date) \/ Truthy(s.end_date)
        THEN << StInfo("Try adjusting the date range or removing date filters.") >>
        ELSE <<>>)

\* drive_connector.py 73-87 and app.py 146-152: fetch_transcripts raises on
\* None, which Search Transcripts swallows, and returns the list otherwise,
\* which Search Transcripts stores
FetchTranscriptsReturn ==
    /\ dpc = "listed"
    /\ IF files = None
       THEN /\ drive_exc' = "Exception"
            /\ UNCHANGED <<transcripts, drive_msgs>>
       ELSE /\ drive_exc' = drive_exc
            /\ transcripts' = files.v
            /\ drive_msgs' = drive_msgs \o
                  (IF files.v # <<>> THEN << StSuccess("Found transcript(s)") >>
                   ELSE NothingFoundMessages(search))
    /\ dpc' = "searched"
    /\ UNCHANGED <<google_creds, selected_transcript, search, all_files,
                   seen_file_ids, requests, files>>
    /\ UNCHANGED <<extractVars, parserVars, session_action_items, storeVars>>

\* app.py 165-167: New Search
NewSearch ==
    /\ LoggedIn
    /\ dpc \in {"searched", "loaded"}
    /\ Truthy(google_creds)
    /\ transcripts # <<>>
    /\ transcripts' = <<>>
    /\ UNCHANGED <<google_creds, selected_transcript, dpc, search, all_files,
                   seen_file_ids, requests, files, drive_exc, drive_msgs>>
    /\ UNCHANGED <<extractVars, parserVars, session_action_items, storeVars>>

\* what the export of a document can do: return its text, raise HttpError,
\* raise another error of the transport (no connection, a timeout, a failed
\* token refresh), or return bytes that are not UTF-8
ExportOutcomes ==
    {[kind |-> "ok", text |-> d] : d \in Documents}
    \cup {[kind |-> e, text |-> <<>>] :
              e \in {"HttpError", "TransportError", "UnicodeDecodeError"}}

Returned(content, msgs) == [exc |-> "none", content |-> content, msgs |-> msgs]
Raised(e) == [exc |-> e, content |-> <<>>, msgs |-> <<>>]

\* google_auth.py 236-246: only HttpError is handled
get_file_content(o) ==
    IF o.kind = "ok" THEN Returned(o.text, <<>>)
    ELSE IF o.kind = "HttpError" THEN Returned(<<>>, << StError("An error occurred") >>)
    ELSE Raised(o.kind)

\* drive_connector.py 101-107
get_transcript_content(creds, o) ==
    IF ~Truthy(creds) THEN Returned(<<>>, <<>>) ELSE get_file_content(o)

\* app.py 169-178: Load Transcript
LoadTranscriptContent ==
    /\ LoggedIn
    /\ dpc \in {"searched", "loaded"}
    /\ Truthy(google_creds)
    /\ transcripts # <<>>
    /\ \E selected_idx \in 1..Len(transcripts), o \in ExportOutcomes :
          LET r == get_transcript_content(google_creds, o)
          IN  /\ selected_transcript' = Some(transcripts[selected_idx])
              /\ requests' = << Request("export", o.kind = "ok", o.text, o.kind) >>
              /\ drive_exc' = r.exc
              /\ IF r.exc = "none"
                 THEN /\ transcript_content' = Some(r.content)
                      /\ drive_msgs' = r.msgs \o << StSuccess("Loaded") >>
                 ELSE /\ transcript_content' = transcript_content
                      /\ drive_msgs' = r.msgs
    /\ dpc' = "loaded"
    /\ UNCHANGED <<google_creds, transcripts, search, all_files, seen_file_ids, files>>
    /\ UNCHANGED <<transcript_text, pc, locals, inits, calls, response,
                   response_text, action_items, exc, raised, result, diagnostics>>
    /\ UNCHANGED <<parserVars, session_action_items, storeVars>>

InitDrive == ExtractIdle /\ ParserIdle /\ AppIdle /\ StoreLoggedIn

NextDrive ==
    \/ ConnectGoogleDrive
    \/ ReconnectGoogleDrive
    \/ SearchTranscripts
    \/ BuildService
    \/ GlobalSearch
    \/ FindFolder
    \/ FolderSearch
    \/ FetchTranscriptsReturn
    \/ NewSearch
    \/ LoadTranscriptContent

SpecDrive == InitDrive /\ [][NextDrive]_vars

-----------------------------------------------------------------------------
(* Properties of the Drive steps (SpecDrive).                              *)

SearchFailed == \E i \in 1..Len(requests) :
                    requests[i].req # "export" /\ ~requests[i].ok
NOT_FOUND == "No transcripts found matching your criteria."
DriveShown(fn) ==
    {drive_msgs[i].msg : i \in {k \in 1..Len(drive_msgs) : drive_msgs[k].fn = fn}}

\* C16: document listing keeps "nothing found" and "hard failure" apart:
\* list_drive_files returns the empty list, and fetch_transcripts returns it
\* with the "no transcripts found" message, only when no search request
\* failed; when a search request failed list_drive_files returns None and
\* fetch_transcripts raises.
C16_NothingFoundVsFailure ==
    /\ (dpc = "listed" /\ files = Some(<<>>)) => ~SearchFailed
    /\ (dpc = "listed" /\ SearchFailed) => files = None
    /\ (dpc = "searched" /\ NOT_FOUND \in DriveShown("st.warning")) => ~SearchFailed
    /\ (dpc = "searched" /\ SearchFailed) => drive_exc = "Exception"

\* C17: the content fetch returns the text of the document on success and
\* the empty text on every failure, and no exception reaches the Load
\* Transcript step.
C17_ContentFetchNeverRaises ==
    dpc = "loaded" =>
        /\ drive_exc = "none"
        /\ transcript_content = Some(IF requests[1].ok THEN requests[1].answer ELSE <<>>)

\* the answer of the request named req of the last search, empty when the
\* request was not made or failed
Answer(req) ==
    LET made == {k \in 1..Len(requests) : requests[k].req = req /\ requests[k].ok}
    IN  IF made = {} THEN <<>> ELSE requests[CHOOSE k \in made : TRUE].answer
\* the descriptors of a sequence whose id no earlier one has, in order
FirstOfEachId(fl) ==
    LET firsts == {i \in 1..Len(fl) : \A j \in 1..(i - 1) : fl[j].id # fl[i].id}
    IN  [k \in 1..Cardinality(firsts) |-> fl[Nth(firsts, k)]]
FolderSearched == \E k \in 1..Len(requests) : requests[k].req \in {"folder", "folder_files"}

\* C23: the list returned by list_drive_files never holds two descriptors
\* with the same id, whatever the global search and the search in the "Meet
\* Recordings" folder return, overlapping answers included; it is the answer
\* of the global search, each id once and in the returned order, followed
\* by the descriptors of the folder search that are new; and the folder is
\* searched only when the global search found nothing or a meeting code was
\* given.
C23_ListedOnceGlobalFirst ==
    (dpc = "listed" /\ files # None) =>
        /\ \A i, j \in 1..Len(files.v) : files.v[i].id = files.v[j].id => i = j
        /\ Len(FirstOfEachId(Answer("global"))) <= Len(files.v)
        /\ SubSeq(files.v, 1, Len(FirstOfEachId(Answer("global")))) =
              FirstOfEachId(Answer("global"))
        /\ files.v = FirstOfEachId(Answer("global") \o Answer("folder_files"))
        /\ FolderSearched => (Answer("global") = <<>> \/ Truthy(search.meeting_code))

C23_Witness ==
    /\ dpc = "listed"
    /\ Truthy(search.meeting_code)
    /\ Answer("global") = << File("f1") >>
    /\ Answer("folder_files") = << File("f1"), File("f2") >>
    /\ files = Some(<< File("f1"), File("f2") >>)

-----------------------------------------------------------------------------
(* utils/supabase_client.py and components/auth.py: the Save to Supabase,  *)
(* Load Saved Tasks, Clear, Login and Logout steps of app.py.  The table   *)
(* is a sequence of rows, and a select returns the rows it matches in the  *)
(* order of their insertion.                                               *)

MaxRows == 3         \* rows of the table
MaxBoard == 2        \* action items on the board

Users == { <<"u1">>, <<"u2">> }

\* the action items a Process step puts on the board (gemini_processor.py
\* 70-75: every item has the three keys)
BoardItems ==
    { [assignee |-> JStr(<<"Unassigned">>), task |-> JStr(<<"x">>),
       priority |-> JStr(<<"Medium">>)],
      [assignee |-> JStr(<<"x">>), task |-> JStr(<<"task">>),
       priority |-> JStr(<<"High">>)] }
Boards == SeqsUpTo(BoardItems, MaxBoard) \ {<<>>}

\* the tables a session can start with: empty, a row of another user, a row
\* written without assignee and priority
InitialStores ==
    { <<>>,
      << [user_id |-> <<"u2">>, assignee |-> JStr(<<"x">>), task |-> JStr(<<"x">>),
          priority |-> JStr(<<"Low">>)] >>,
      << [user_id |-> <<"u1">>, task |-> JStr(<<"x">>)] >> }

\* supabase_client.py 77-83: the row inserted for one task
RowOf(user_id, task) ==
    [ user_id |-> user_id,
      assignee |-> Get(task, "assignee", JStr(<<"Unassigned">>)),
      task |-> Get(task, "task", JStr(<<>>)),
      priority |-> Get(task, "priority", JStr(<<"Medium">>)) ]
tasks_to_insert(user_id, tasks_list) ==
    [i \in 1..Len(tasks_list) |-> RowOf(user_id, tasks_list[i])]

\* fetch_tasks without the filter on user_id
fetch_tasks_all(rows, user_id) == rows

\* supabase_client.py 107-108: select("*").eq("user_id", user_id)
fetch_tasks(rows, user_id) == SelectSeq(rows, LAMBDA r : r.user_id = user_id)

\* app.py 57-64: a fetched row in the format of an action item
AsActionItem(task) ==
    [ assignee |-> Get(task, "assignee", JStr(<<"Unassigned">>)),
      task |-> Get(task, "task", JStr(<<>>)),
      priority |-> Get(task, "priority", JStr(<<"Medium">>)) ]

Step(op, ok) == [op |-> op, ok |-> ok]

\* auth.py 28-42: a login that succeeds
Login ==
    /\ user = None
    /\ \E u \in Users : user' = Some(u)
    /\ store_step' = Step("login", TRUE)
    /\ store_msgs' = << StSuccess("Login successful!") >>
    /\ UNCHANGED <<store, saved>>
    /\ UNCHANGED <<extractVars, parserVars, session_action_items, driveVars>>

\* auth.py 70-84 and app.py 22-31: Logout deletes every key of the session
\* state, which the rerun initialises again; when sign_out raises nothing is
\* deleted
Logout ==
    /\ user # None
    /\ \/ /\ user' = None
          /\ session_action_items' = <<>>
          /\ transcript_content' = None
          /\ google_creds' = None
          /\ transcripts' = <<>>
          /\ selected_transcript' = None
          /\ store_step' = Step("logout", TRUE)
          /\ store_msgs' = << StSuccess("Logged out successfully!") >>
       \/ /\ store_step' = Step("logout", FALSE)
          /\ store_msgs' = << StError("Logout failed") >>
          /\ UNCHANGED <<user, session_action_items, transcript_content,
                         google_creds, transcripts, selected_transcript>>
    /\ UNCHANGED <<store, saved>>
    /\ UNCHANGED <<transcript_text, pc, locals, inits, calls, response,
                   response_text, action_items, exc, raised, result, diagnostics>>
    /\ UNCHANGED <<dpc, search, all_files, seen_file_ids, requests, files,
                   drive_exc, drive_msgs>>
    /\ UNCHANGED parserVars

\* app.py 189-192: a Process step that extracted items puts them on the board
ProcessExtracted ==
    /\ LoggedIn
    /\ \E items \in Boards : session_action_items' = items
    /\ store_step' = Step("process", TRUE)
    /\ store_msgs' = << StSuccess("Extracted action item(s)") >>
    /\ UNCHANGED <<user, store, saved>>
    /\ UNCHANGED <<extractVars, parserVars, driveVars>>

\* gemini_processor.py 26-27 and 76-86: the st.error extract_action_items
\* shows before it returns the empty list: none (empty text, no valid item),
\* the failed call, or the response that is no JSON
EmptyExtractions ==
    { <<>>,
      << StError("Error processing transcript with Gemini") >>,
      << StError("Failed to parse Gemini response as JSON") >> }

\* a Process step without items that empties the board
ProcessNoItemsClearsBoard ==
    /\ LoggedIn
    /\ Truthy(transcript_content)
    /\ session_action_items' = <<>>
    /\ store_step' = Step("process", FALSE)
    /\ \E shown \in EmptyExtractions :
          store_msgs' = shown \o << StWarning("No action items found in the transcript.") >>
    /\ UNCHANGED <<user, store, saved>>
    /\ UNCHANGED <<extractVars, parserVars, driveVars>>

\* app.py 181-189 and 193-194: a Process step, offered while the session holds
\* a transcript, whose extraction returned the empty list only shows a warning
ProcessNoItems ==
    /\ LoggedIn
    /\ Truthy(transcript_content)
    /\ store_step' = Step("process", FALSE)
    /\ \E shown \in EmptyExtractions :
          store_msgs' = shown \o << StWarning("No action items found in the transcript.") >>
    /\ UNCHANGED <<user, store, saved>>
    /\ UNCHANGED <<extractVars, parserVars, session_action_items, driveVars>>

\* google_auth.py 144-147 and 194-197: the lists list_drive_files returns hold
\* no id twice
ListedFiles ==
    {fl \in FileLists : \A i, j \in 1..Len(fl) : fl[i].id = fl[j].id => i = j}

\* app.py 136-152 as one step: fetch_transcripts returns a list, which the
\* session keeps, or raises, which the handler passes over
SearchTranscriptsOutcome ==
    /\ LoggedIn
    /\ dpc \in {"idle", "searched", "loaded"}
    /\ Truthy(google_creds)
    /\ transcripts = <<>>
    /\ \E found \in ListedFiles, ok \in BOOLEAN :
          /\ transcripts' = (IF ok THEN found ELSE transcripts)
          /\ drive_exc' = (IF ok THEN "none" ELSE "Exception")
    /\ dpc' = "searched"
    /\ UNCHANGED <<google_creds, selected_transcript, search, all_files,
                   seen_file_ids, requests, files, drive_msgs>>
    /\ UNCHANGED <<extractVars, parserVars, session_action_items, storeVars>>

\* app.py 197-216 and supabase_client.py 71-90: Save to Supabase inserts one
\* row per item of the board, or the insert raises and nothing is stored
SaveToSupabase ==
    /\ LoggedIn
    /\ session_action_items # <<>>
    /\ \/ /\ Len(store) + Len(session_action_items) <= MaxRows
          /\ store' = store \o tasks_to_insert(user.v, session_action_items)
          /\ saved' = Append(saved, [user_id |-> user.v, tasks |-> session_action_items])
          /\ store_step' = Step("save", TRUE)
          /\ store_msgs' = << StSuccess("Tasks saved to Supabase!") >>
       \/ /\ store_step' = Step("save", FALSE)
          /\ store_msgs' = << StError("Error saving tasks"), StError("Failed to save tasks.") >>
          /\ UNCHANGED <<store, saved>>
    /\ UNCHANGED user
    /\ UNCHANGED <<extractVars, parserVars, session_action_items, driveVars>>

\* app.py 53-68 and supabase_client.py 104-111: Load Saved Tasks fetches the
\* rows of the user; a fetch that raises gives the empty list, and an empty
\* list leaves the board as it is
LoadSavedTasks ==
    /\ user # None
    /\ \E ok \in BOOLEAN :
          LET user_tasks == IF ok THEN fetch_tasks(store, user.v) ELSE <<>>
          IN  /\ store_step' = Step("load", ok)
              /\ IF user_tasks # <<>>
                 THEN /\ session_action_items' =
                            [i \in 1..Len(user_tasks) |-> AsActionItem(user_tasks[i])]
                      /\ store_msgs' = << StSuccess("Loaded saved task(s)") >>
                 ELSE /\ session_action_items' = session_action_items
                      /\ store_msgs' =
                            (IF ok THEN <<>> ELSE << StError("Error fetching tasks") >>)
                            \o << StInfo("No saved tasks found.") >>
    /\ UNCHANGED <<user, store, saved>>
    /\ UNCHANGED <<extractVars, parserVars, driveVars>>

\* app.py 219-223: Clear & Start Over
ClearAndStartOver ==
    /\ LoggedIn
    /\ session_action_items # <<>>
    /\ session_action_items' = <<>>
    /\ transcript_content' = None
    /\ selected_transcript' = None
    /\ store_step' = Step("clear", TRUE)
    /\ store_msgs' = <<>>
    /\ UNCHANGED <<user, store, saved>>
    /\ UNCHANGED <<transcript_text, pc, locals, inits, calls, response,
                   response_text, action_items, exc, raised, result, diagnostics>>
    /\ UNCHANGED <<google_creds, transcripts, dpc, search, all_files,
                   seen_file_ids, requests, files, drive_exc, drive_msgs>>
    /\ UNCHANGED parserVars

InitStore ==
    /\ ExtractIdle /\ ParserIdle /\ AppIdle
    /\ user = None
    /\ store \in InitialStores
    /\ saved = <<>>
    /\ store_step = Step("none", TRUE)
    /\ store_msgs = <<>>

NextStore ==
    \/ Login
    \/ Logout
    \/ ProcessExtracted
    \/ SaveToSupabase
    \/ LoadSavedTasks
    \/ ClearAndStartOver

SpecStore == InitStore /\ [][NextStore]_vars

\* app.py 181-192: Process with Gemini is offered while the session holds a
\* transcript; here the extraction returns items
ProcessItems ==
    /\ Truthy(transcript_content)
    /\ ProcessExtracted

\* the handlers that read or write the session state, each as one step
NextSession ==
    \/ Login
    \/ Logout
    \/ ConnectGoogleDrive
    \/ ReconnectGoogleDrive
    \/ SearchTranscriptsOutcome
    \/ NewSearch
    \/ LoadTranscriptContent
    \/ ProcessItems
    \/ ProcessNoItems
    \/ LoadSavedTasks
    \/ ClearAndStartOver

SpecSession == InitStore /\ [][NextSession]_vars

-----------------------------------------------------------------------------
(* Properties of the persistence steps (SpecStore).                        *)

\* the rows stored for a user, and a row read with its defaults
StoredFor(u) == SelectSeq(store, LAMBDA r : r.user_id = u)
ReadRow(r) ==
    [ assignee |-> IF "assignee" \in DOMAIN r THEN r.assignee ELSE JStr(<<"Unassigned">>),
      task |-> r.task,
      priority |-> IF "priority" \in DOMAIN r THEN r.priority ELSE JStr(<<"Medium">>) ]
ReadBack(rows) == [i \in 1..Len(rows) |-> ReadRow(rows[i])]
\* the items the successful saves of a user stored, in order
RECURSIVE SavedBy(_, _)
SavedBy(u, history) ==
    IF history = <<>> THEN <<>>
    ELSE (IF Head(history).user_id = u THEN Head(history).tasks ELSE <<>>)
         \o SavedBy(u, Tail(history))
EndsWith(s, t) == Len(t) <= Len(s) /\ SubSeq(s, Len(s) - Len(t) + 1, Len(s)) = t

\* C18 as stated: after any sequence of successful saves of a user, Load
\* Saved Tasks sets the board's items to exactly the records stored for
\* that user.
C18_LoadSetsStored ==
    store_step.op = "load" => session_action_items = ReadBack(StoredFor(user.v))

\* C18: persistence round trip.  The records stored for a user end with the
\* items of that user's successful saves, in order and with the values
\* saved.  A Load Saved Tasks whose fetch succeeds and finds a record sets
\* the board's items to exactly the records stored for the user, none of
\* another user, each with exactly the keys assignee, task and priority,
\* "Unassigned" and "Medium" standing for an assignee and a priority the
\* record lacks; so a list saved into an empty table is the list loaded.  A
\* Load Saved Tasks whose fetch fails or finds no record leaves the board as
\* it is.
C18_RoundTrip ==
    /\ [](\A u \in Users : EndsWith(ReadBack(StoredFor(u)), SavedBy(u, saved)))
    /\ []((store_step = Step("load", TRUE) /\ StoredFor(user.v) # <<>>) =>
            /\ session_action_items = ReadBack(StoredFor(user.v))
            /\ (Len(saved) = 1 /\ Len(store) = Len(saved[1].tasks)) =>
                  session_action_items = saved[1].tasks)
    /\ [][(store_step'.op = "load" /\ (~store_step'.ok \/ StoredFor(user.v) = <<>>)) =>
              session_action_items' = session_action_items]_vars

C18_Witness ==
    /\ store_step = Step("load", TRUE)
    /\ user = Some(<<"u1">>)
    /\ StoredFor(<<"u2">>) # <<>>
    /\ Len(SavedBy(<<"u1">>, saved)) = MaxBoard
    /\ session_action_items = SavedBy(<<"u1">>, saved)

-----------------------------------------------------------------------------
(* Properties of the session state (SpecSession).                          *)

\* the five entries of the session state the application keeps
SessionState ==
    <<session_action_items, transcript_content, selected_transcript, transcripts,
      google_creds>>

====
